---- MODULE Spec2Model ----
(***************************************************************************)
(* A model of the Binance futures trading bot: BasicBot (src/bot.py) and   *)
(* the interactive shell CommandLineInterface (src/cli.py).                *)
(*                                                                         *)
(* Python str values are sequences of one-character strings, so that       *)
(* upper(), strip(), rstrip(), split(), float(), Decimal() and str() are   *)
(* computed character by character, as the interpreter computes them.      *)
(* A Python float is modelled by the decimal number its repr denotes:      *)
(* [neg, coef, frac] stands for (-1)^neg * coef * 10^(-frac).  The inputs  *)
(* of the model have at most 15 significant digits and a magnitude below   *)
(* 10^16, the range in which float(str(x)) = x and repr uses no positive   *)
(* exponent.                                                               *)
(***************************************************************************)
EXTENDS Integers, Sequences, FiniteSets, TLC

(***************************************************************************)
(* Characters and strings                                                  *)
(***************************************************************************)
DigitCs == <<"0", "1", "2", "3", "4", "5", "6", "7", "8", "9">>

LowerCs == <<"a", "b", "c", "d", "e", "f", "g", "h", "i", "j", "k", "l", "m",
             "n", "o", "p", "q", "r", "s", "t", "u", "v", "w", "x", "y", "z">>

UpperCs == <<"A", "B", "C", "D", "E", "F", "G", "H", "I", "J", "K", "L", "M",
             "N", "O", "P", "Q", "R", "S", "T", "U", "V", "W", "X", "Y", "Z">>

\* The first index of c in s, 0 when c does not occur (s.find(c) + 1).
IndexOf(s, c) ==
    IF \E i \in DOMAIN s : s[i] = c
    THEN CHOOSE i \in DOMAIN s : s[i] = c /\ \A j \in 1..(i - 1) : s[j] # c
    ELSE 0

\* The last index of c in s, 0 when c does not occur (s.rfind(c) + 1).
LastIndexOf(s, c) ==
    IF \E i \in DOMAIN s : s[i] = c
    THEN CHOOSE i \in DOMAIN s : s[i] = c /\ \A j \in (i + 1)..Len(s) : s[j] # c
    ELSE 0

UpperChar(c) ==
    LET i == IndexOf(LowerCs, c) IN IF i = 0 THEN c ELSE UpperCs[i]

LowerChar(c) ==
    LET i == IndexOf(UpperCs, c) IN IF i = 0 THEN c ELSE LowerCs[i]

\* str.upper()
Upper(s) == [i \in DOMAIN s |-> UpperChar(s[i])]

\* str.lower()
Lower(s) == [i \in DOMAIN s |-> LowerChar(s[i])]

\* str.rstrip(c)
RECURSIVE RStrip(_, _)
RStrip(s, c) ==
    IF s # <<>> /\ s[Len(s)] = c THEN RStrip(SubSeq(s, 1, Len(s) - 1), c) ELSE s

\* str.lstrip(c)
RECURSIVE LStrip(_, _)
LStrip(s, c) ==
    IF s # <<>> /\ s[1] = c THEN LStrip(Tail(s), c) ELSE s

\* str.strip(): the whitespace of the model's inputs is the blank.
Strip(s) == RStrip(LStrip(s, " "), " ")

IsDigit(c) == IndexOf(DigitCs, c) # 0

AllDigits(s) == \A i \in DOMAIN s : IsDigit(s[i])

RECURSIVE Pow10(_)
Pow10(n) == IF n <= 0 THEN 1 ELSE 10 * Pow10(n - 1)

\* The value of a string of decimal digits (0 for the empty string).
RECURSIVE DigitsNat(_)
DigitsNat(s) ==
    IF s = <<>> THEN 0
    ELSE 10 * DigitsNat(SubSeq(s, 1, Len(s) - 1)) + (IndexOf(DigitCs, s[Len(s)]) - 1)

\* str(n) of a natural number.
RECURSIVE NatStr(_)
NatStr(n) ==
    IF n < 10 THEN <<DigitCs[n + 1]>>
    ELSE NatStr(n \div 10) \o <<DigitCs[(n % 10) + 1]>>

\* n as at least w digits, zero-padded on the left.
RECURSIVE PadNat(_, _)
PadNat(n, w) ==
    LET s == NatStr(n) IN
    IF Len(s) >= w THEN s ELSE <<"0">> \o PadNat(n, w - 1)

(***************************************************************************)
(* Numbers                                                                 *)
(***************************************************************************)
\* The number a numeric literal denotes: what float(s) and Decimal(s) both
\* read.  [ok, neg, coef, exp] with value (-1)^neg * coef * 10^exp; ok is
\* FALSE where Python raises ValueError (float) or InvalidOperation (Decimal).
\* Grammar: blanks, sign, digits with at most one point, optional exponent.
ParseNumber(s) ==
    LET t     == Strip(s)
        neg   == t # <<>> /\ t[1] = "-"
        body  == IF t # <<>> /\ t[1] \in {"-", "+"} THEN Tail(t) ELSE t
        ePos  == IF IndexOf(body, "e") # 0 THEN IndexOf(body, "e") ELSE IndexOf(body, "E")
        mant  == IF ePos = 0 THEN body ELSE SubSeq(body, 1, ePos - 1)
        ex    == IF ePos = 0 THEN <<>> ELSE SubSeq(body, ePos + 1, Len(body))
        exNeg == ex # <<>> /\ ex[1] = "-"
        exDig == IF ex # <<>> /\ ex[1] \in {"-", "+"} THEN Tail(ex) ELSE ex
        dot   == IndexOf(mant, ".")
        ip    == IF dot = 0 THEN mant ELSE SubSeq(mant, 1, dot - 1)
        fp    == IF dot = 0 THEN <<>> ELSE SubSeq(mant, dot + 1, Len(mant))
        good  == /\ AllDigits(ip) /\ AllDigits(fp)
                 /\ Len(ip) + Len(fp) >= 1
                 /\ (ePos # 0 => (exDig # <<>> /\ AllDigits(exDig)))
        e     == IF exNeg THEN 0 - DigitsNat(exDig) ELSE DigitsNat(exDig)
    IN  IF good
        THEN [ok |-> TRUE, neg |-> neg, coef |-> DigitsNat(ip \o fp), exp |-> e - Len(fp)]
        ELSE [ok |-> FALSE, neg |-> FALSE, coef |-> 0, exp |-> 0]

\* A float value in its shortest form: no trailing zero in the fraction.
RECURSIVE NormFloat(_)
NormFloat(x) ==
    IF x.frac > 0 /\ x.coef % 10 = 0
    THEN NormFloat([x EXCEPT !.coef = x.coef \div 10, !.frac = x.frac - 1])
    ELSE x

\* The float of a parsed number.
FloatOfNumber(d) ==
    IF d.exp >= 0
    THEN [neg |-> d.neg, coef |-> d.coef * Pow10(d.exp), frac |-> 0]
    ELSE NormFloat([neg |-> d.neg, coef |-> d.coef, frac |-> 0 - d.exp])

\* The fixed-point digits of coef * 10^(-frac) with exactly frac fraction digits.
FixedDigits(coef, frac) ==
    NatStr(coef \div Pow10(frac))
      \o (IF frac = 0 THEN <<>> ELSE <<".">> \o PadNat(coef % Pow10(frac), frac))

\* str(x) of a float: repr, the shortest string that reads back as x; at
\* least one fraction digit; exponent notation for magnitudes below 1e-04.
FloatStr(x) ==
    LET n    == NormFloat(x)
        sign == IF n.neg THEN <<"-">> ELSE <<>>
        ds   == NatStr(n.coef)
        e    == Len(ds) - 1 - n.frac
    IN  IF n.coef = 0 THEN sign \o <<"0", ".", "0">>
        ELSE IF e < 0 - 4
        THEN sign \o <<ds[1]>>
                  \o (IF Len(ds) > 1 THEN <<".">> \o Tail(ds) ELSE <<>>)
                  \o <<"e", "-">> \o PadNat(0 - e, 2)
        ELSE IF n.frac = 0 THEN sign \o ds \o <<".", "0">>
        ELSE sign \o FixedDigits(n.coef, n.frac)

\* Decimal.quantize(Decimal with exponent e, rounding=ROUND_DOWN): d cut toward
\* zero to the exponent e.  Only the exponent of the second operand is used.
Quantize(d, e) ==
    [ok   |-> TRUE,
     neg  |-> d.neg,
     coef |-> IF d.exp >= e THEN d.coef * Pow10(d.exp - e)
                            ELSE d.coef \div Pow10(e - d.exp),
     exp  |-> e]

\* f"{x:.{p}f}": x with exactly p fraction digits, rounded half to even.
FormatFixed(x, p) ==
    LET k    == x.frac - p
        q    == x.coef \div Pow10(k)
        r    == x.coef % Pow10(k)
        half == 5 * Pow10(k - 1)
        up   == r > half \/ (r = half /\ q % 2 = 1)
        c    == IF k <= 0 THEN x.coef * Pow10(0 - k)
                ELSE IF up THEN q + 1 ELSE q
    IN  (IF x.neg THEN <<"-">> ELSE <<>>) \o FixedDigits(c, p)

(***************************************************************************)
(* BasicBot: exchange metadata and quantity formatting                     *)
(***************************************************************************)
\* Markers that no Python string of the model equals.
Missing == <<"<missing>">>
Absent  == <<"<absent>">>
PyNone  == <<"<None>">>

NoSymbolInfo == [symbol |-> <<>>, filters |-> <<>>]

\* get_symbol_info(symbol) against the response resp of futures_exchange_info:
\* the first listed entry whose symbol is symbol.upper(), else ValueError; the
\* client's own failure is re-raised.
get_symbol_info(symbol, resp) ==
    IF resp.raises
    THEN [raised |-> TRUE, exc |-> "BinanceAPIException", val |-> NoSymbolInfo]
    ELSE LET hits == {i \in DOMAIN resp.symbols : resp.symbols[i].symbol = Upper(symbol)}
         IN  IF hits = {}
             THEN [raised |-> TRUE, exc |-> "ValueError", val |-> NoSymbolInfo]
             ELSE [raised |-> FALSE, exc |-> "",
                   val |-> resp.symbols[CHOOSE i \in hits : \A j \in hits : i <= j]]

\* The precision of line 89: the length of what follows the last point of
\* str(step_size), 0 when it has no point.
StepPrecision(stepStr) ==
    IF IndexOf(stepStr, ".") # 0
    THEN Len(stepStr) - LastIndexOf(stepStr, ".")
    ELSE 0

\* The first LOT_SIZE filter of a symbol's filters, 0 when there is none.
LotSizeIndex(filters) ==
    LET hits == {i \in DOMAIN filters : filters[i].filterType = "LOT_SIZE"}
    IN  IF hits = {} THEN 0 ELSE CHOOSE i \in hits : \A j \in hits : i <= j

\* format_quantity with an except branch that raises again instead of
\* returning str(quantity).
format_quantity_reraising(symbol, quantity, resp) ==
    LET info == get_symbol_info(symbol, resp)
        lot  == LotSizeIndex(info.val.filters)
        raw  == info.val.filters[lot].stepSize
        step == ParseNumber(raw)
        stepStr   == FloatStr(FloatOfNumber(step))
        precision == StepPrecision(stepStr)
        rounded   == FloatOfNumber(Quantize(ParseNumber(FloatStr(quantity)),
                                            ParseNumber(stepStr).exp))
    IN  IF info.raised
        THEN [raised |-> TRUE, exc |-> info.exc, ret |-> <<>>, fallback |-> FALSE]
        ELSE IF lot = 0
        THEN [raised |-> FALSE, exc |-> "", ret |-> FloatStr(quantity), fallback |-> FALSE]
        ELSE IF raw = Missing \/ ~step.ok
        THEN [raised |-> TRUE, exc |-> IF raw = Missing THEN "KeyError" ELSE "ValueError",
              ret |-> <<>>, fallback |-> FALSE]
        ELSE [raised |-> FALSE, exc |-> "",
              ret |-> RStrip(RStrip(FormatFixed(rounded, precision), "0"), "."),
              fallback |-> FALSE]

\* format_quantity(symbol, quantity) against the response resp of
\* futures_exchange_info.  Every failure inside the try block (the lookup, a
\* missing stepSize key, a stepSize that float() rejects) ends in the except
\* branch of line 98, which returns str(quantity): fallback tells that this
\* branch produced ret.  raised tells that an exception left the function.
format_quantity(symbol, quantity, resp) ==
    LET info == get_symbol_info(symbol, resp)
        lot  == LotSizeIndex(info.val.filters)
        raw  == info.val.filters[lot].stepSize
        step == ParseNumber(raw)
        stepStr   == FloatStr(FloatOfNumber(step))
        precision == StepPrecision(stepStr)
        rounded   == FloatOfNumber(Quantize(ParseNumber(FloatStr(quantity)),
                                            ParseNumber(stepStr).exp))
    IN  IF info.raised
        THEN [raised |-> FALSE, exc |-> "", ret |-> FloatStr(quantity), fallback |-> TRUE]
        ELSE IF lot = 0
        THEN [raised |-> FALSE, exc |-> "", ret |-> FloatStr(quantity), fallback |-> FALSE]
        ELSE IF raw = Missing \/ ~step.ok
        THEN [raised |-> FALSE, exc |-> "", ret |-> FloatStr(quantity), fallback |-> TRUE]
        ELSE [raised |-> FALSE, exc |-> "",
              ret |-> RStrip(RStrip(FormatFixed(rounded, precision), "0"), "."),
              fallback |-> FALSE]

(***************************************************************************)
(* BasicBot: the calls made on the exchange client                         *)
(***************************************************************************)
BUY  == <<"B", "U", "Y">>
SELL == <<"S", "E", "L", "L">>
GTC  == <<"G", "T", "C">>
IOC  == <<"I", "O", "C">>
FOK  == <<"F", "O", "K">>
NoneStr == <<"N", "o", "n", "e">>

\* One call on self.client with its keyword arguments; Absent marks a keyword
\* the call does not pass, PyNone a keyword passed as None.  orderId is 0
\* where the call has none.
ClientCall(api, symbol, side, type, quantity, price, stopPrice, timeInForce, orderId) ==
    [api |-> api, symbol |-> symbol, side |-> side, type |-> type,
     quantity |-> quantity, price |-> price, stopPrice |-> stopPrice,
     timeInForce |-> timeInForce, orderId |-> orderId]

\* self.client.futures_exchange_info(), the one call of get_symbol_info.
ExchangeInfoCall ==
    ClientCall("futures_exchange_info", Absent, Absent, "", Absent, Absent, Absent, Absent, 0)

\* str(v) of an optional float argument: str(None) is "None".
PyStr(v) == IF v.given THEN FloatStr(v.val) ELSE NoneStr

\* The outcome of a bot operation: the client calls it made, in order, and
\* either the exception it raised or (ret) the string it returned, if any.
Raised(calls, exc) == [calls |-> calls, raised |-> TRUE, exc |-> exc, ret |-> <<>>]

Returned(calls, ret) == [calls |-> calls, raised |-> FALSE, exc |-> "", ret |-> ret]

\* SubmitOrder with one more try after a failed futures_create_order call.
SubmitOrderRetrying(before, req, created) ==
    IF created = "apierror" THEN Raised(before \o <<req, req>>, "BinanceAPIException")
    ELSE IF created = "noid" THEN Raised(before \o <<req>>, "KeyError")
    ELSE Returned(before \o <<req>>, <<>>)

\* The tail shared by the three order operations: one futures_create_order
\* call with the request req, after the calls made before it; its exception is
\* logged and re-raised, and a response without orderId raises KeyError at the
\* log line that reads it.
SubmitOrder(before, req, created) ==
    IF created = "apierror" THEN Raised(before \o <<req>>, "BinanceAPIException")
    ELSE IF created = "noid" THEN Raised(before \o <<req>>, "KeyError")
    ELSE Returned(before \o <<req>>, <<>>)

\* place_market_order(symbol, side, quantity)
place_market_order(symbol, side, quantity, resp, created) ==
    LET sym == Upper(symbol)
        sd  == Upper(side)
        fmt == format_quantity(sym, quantity, resp)
    IN  IF sd \notin {BUY, SELL} THEN Raised(<<>>, "ValueError")
        ELSE IF fmt.raised THEN Raised(<<ExchangeInfoCall>>, fmt.exc)
        ELSE SubmitOrder(<<ExchangeInfoCall>>,
                 ClientCall("futures_create_order", sym, sd, "MARKET", fmt.ret,
                            Absent, Absent, Absent, 0),
                 created)

\* place_limit_order(symbol, side, quantity, price, time_in_force='GTC');
\* tif.given is FALSE when the caller omits time_in_force.
place_limit_order(symbol, side, quantity, price, tif, resp, created) ==
    LET sym == Upper(symbol)
        sd  == Upper(side)
        fmt == format_quantity(sym, quantity, resp)
        time_in_force == IF tif.given THEN tif.val ELSE GTC
    IN  IF sd \notin {BUY, SELL} THEN Raised(<<>>, "ValueError")
        ELSE IF fmt.raised THEN Raised(<<ExchangeInfoCall>>, fmt.exc)
        ELSE SubmitOrder(<<ExchangeInfoCall>>,
                 ClientCall("futures_create_order", sym, sd, "LIMIT", fmt.ret,
                            PyStr(price), Absent, time_in_force, 0),
                 created)

\* place_stop_limit_order(symbol, side, quantity, price, stop_price,
\* time_in_force='GTC')
place_stop_limit_order(symbol, side, quantity, price, stop_price, tif, resp, created) ==
    LET sym == Upper(symbol)
        sd  == Upper(side)
        fmt == format_quantity(sym, quantity, resp)
        time_in_force == IF tif.given THEN tif.val ELSE GTC
    IN  IF fmt.raised THEN Raised(<<ExchangeInfoCall>>, fmt.exc)
        ELSE SubmitOrder(<<ExchangeInfoCall>>,
                 ClientCall("futures_create_order", sym, sd, "STOP", fmt.ret,
                            PyStr(price), PyStr(stop_price), time_in_force, 0),
                 created)

\* cancel_order(symbol, order_id)
cancel_order(symbol, order_id, answer) ==
    LET call == ClientCall("futures_cancel_order", Upper(symbol), Absent, "", Absent,
                           Absent, Absent, Absent, order_id)
    IN  IF answer = "apierror" THEN Raised(<<call>>, "BinanceAPIException")
        ELSE Returned(<<call>>, <<>>)

\* get_open_orders(symbol=None): symbol is PyNone or a string, passed on as is.
get_open_orders(symbol, answer) ==
    LET call == ClientCall("futures_get_open_orders", symbol, Absent, "", Absent,
                           Absent, Absent, Absent, 0)
    IN  IF answer = "apierror" THEN Raised(<<call>>, "BinanceAPIException")
        ELSE Returned(<<call>>, <<>>)

\* get_current_price(symbol): the ticker's price string goes through float().
get_current_price(symbol, answer, priceStr) ==
    LET call == ClientCall("futures_symbol_ticker", Upper(symbol), Absent, "", Absent,
                           Absent, Absent, Absent, 0)
    IN  IF answer = "apierror" THEN Raised(<<call>>, "BinanceAPIException")
        ELSE IF ~ParseNumber(priceStr).ok THEN Raised(<<call>>, "ValueError")
        ELSE Returned(<<call>>, FloatStr(FloatOfNumber(ParseNumber(priceStr))))

\* get_account_balance()
get_account_balance(answer) ==
    LET call == ClientCall("futures_account", Absent, Absent, "", Absent,
                           Absent, Absent, Absent, 0)
    IN  IF answer = "apierror" THEN Raised(<<call>>, "BinanceAPIException")
        ELSE Returned(<<call>>, <<>>)

(***************************************************************************)
(* The record of one bot operation: its name, its arguments and what the   *)
(* exchange client answers to the calls it makes.                          *)
(***************************************************************************)
NoFloat == [neg |-> FALSE, coef |-> 0, frac |-> 0]

\* An optional float argument (a price): given is FALSE for None.
NoPrice == [given |-> FALSE, val |-> NoFloat]

Price(x) == [given |-> TRUE, val |-> x]

\* An optional time_in_force argument: given is FALSE when it is omitted.
NoTif == [given |-> FALSE, val |-> <<>>]

Tif(v) == [given |-> TRUE, val |-> v]

NoResp == [raises |-> FALSE, symbols |-> <<>>]

Op(name, symbol, side, quantity, price, stop_price, tif, order_id, resp, answer) ==
    [name |-> name, symbol |-> symbol, side |-> side, quantity |-> quantity,
     price |-> price, stop_price |-> stop_price, tif |-> tif,
     order_id |-> order_id, resp |-> resp, answer |-> answer]

NoOp == Op("", <<>>, <<>>, NoFloat, NoPrice, NoPrice, NoTif, 0, NoResp, "")

(***************************************************************************)
(* CommandLineInterface: the handlers                                      *)
(***************************************************************************)
\* What input() gives for one prompt: a line, or end of input (EOFError), or
\* a keyboard interrupt while the prompt waits (KeyboardInterrupt).
EOF  == <<"<EOF>">>
INTR == <<"<INTR>">>

\* int(s): blanks, a sign and digits.
IntOf(s) ==
    LET t    == Strip(s)
        body == IF t # <<>> /\ t[1] \in {"-", "+"} THEN Tail(t) ELSE t
    IN  IF body # <<>> /\ AllDigits(body)
        THEN [ok |-> TRUE, val |-> IF t[1] = "-" THEN 0 - DigitsNat(body) ELSE DigitsNat(body)]
        ELSE [ok |-> FALSE, val |-> 0]

\* Whether reading prompt number i stops the handler: input() raises, or the
\* conversion of the line (kinds[i] is "str", "float" or "int") raises.
PromptFails(lines, kinds, i) ==
    \/ lines[i] \in {EOF, INTR}
    \/ kinds[i] = "float" /\ ~ParseNumber(lines[i]).ok
    \/ kinds[i] = "int" /\ ~IntOf(lines[i]).ok

\* The exception that ends the handler's prompts, "" when all are read: the
\* prompts are read in order and the first failure is the one raised.
PromptException(lines, kinds) ==
    LET bad == {i \in DOMAIN kinds : PromptFails(lines, kinds, i)}
        i   == CHOOSE k \in bad : \A j \in bad : k <= j
    IN  IF bad = {} THEN ""
        ELSE IF lines[i] = INTR THEN "KeyboardInterrupt"
        ELSE IF lines[i] = EOF THEN "EOFError"
        ELSE "ValueError"

\* How a handler ends.  op, out: the bot operation it called (NoOp when it
\* called none) and its outcome; shellExc: the exception raised by the
\* handler's own prompts; escaped: the exception that leaves the handler;
\* printed: what it prints last.
Handled(op, out, shellExc, escaped, printed) ==
    [op |-> op, out |-> out, shellExc |-> shellExc, escaped |-> escaped,
     printed |-> printed]

\* The try/except of every handler: "except Exception" prints the failure
\* and returns; a KeyboardInterrupt is no Exception and leaves the handler.
HandlerEnd(pexc, op, out, okMsg, failMsg) ==
    IF pexc = "KeyboardInterrupt"
    THEN Handled(NoOp, Returned(<<>>, <<>>), pexc, pexc, "")
    ELSE IF pexc # ""
    THEN Handled(NoOp, Returned(<<>>, <<>>), pexc, "", failMsg)
    ELSE Handled(op, out, "", "", IF out.raised THEN failMsg ELSE okMsg)

\* _handle_market_order: prompts Symbol, Side, Quantity.
handle_market_order(lines, resp, created) ==
    LET symbol   == Strip(lines[1])
        side     == Upper(Strip(lines[2]))
        quantity == FloatOfNumber(ParseNumber(lines[3]))
    IN  HandlerEnd(PromptException(lines, <<"str", "str", "float">>),
            Op("place_market_order", symbol, side, quantity, NoPrice, NoPrice,
               NoTif, 0, resp, created),
            place_market_order(symbol, side, quantity, resp, created),
            "Market order placed", "Failed to place market order")

\* _handle_limit_order: prompts Symbol, Side, Quantity, Price.
handle_limit_order(lines, resp, created) ==
    LET symbol   == Strip(lines[1])
        side     == Upper(Strip(lines[2]))
        quantity == FloatOfNumber(ParseNumber(lines[3]))
        price    == Price(FloatOfNumber(ParseNumber(lines[4])))
    IN  HandlerEnd(PromptException(lines, <<"str", "str", "float", "float">>),
            Op("place_limit_order", symbol, side, quantity, price, NoPrice,
               NoTif, 0, resp, created),
            place_limit_order(symbol, side, quantity, price, NoTif, resp, created),
            "Limit order placed", "Failed to place limit order")

\* _handle_stop_order: prompts Symbol, Side, Quantity, Stop price, Limit price.
handle_stop_order(lines, resp, created) ==
    LET symbol      == Strip(lines[1])
        side        == Upper(Strip(lines[2]))
        quantity    == FloatOfNumber(ParseNumber(lines[3]))
        stop_price  == Price(FloatOfNumber(ParseNumber(lines[4])))
        limit_price == Price(FloatOfNumber(ParseNumber(lines[5])))
    IN  HandlerEnd(PromptException(lines, <<"str", "str", "float", "float", "float">>),
            Op("place_stop_limit_order", symbol, side, quantity, limit_price,
               stop_price, NoTif, 0, resp, created),
            place_stop_limit_order(symbol, side, quantity, limit_price, stop_price,
                                   NoTif, resp, created),
            "Stop-limit order placed", "Failed to place stop-limit order")

\* _handle_cancel_order: prompts Symbol, Order ID.
handle_cancel_order(lines, answer) ==
    LET symbol   == Strip(lines[1])
        order_id == IntOf(lines[2]).val
    IN  HandlerEnd(PromptException(lines, <<"str", "int">>),
            Op("cancel_order", symbol, <<>>, NoFloat, NoPrice, NoPrice, NoTif,
               order_id, NoResp, answer),
            cancel_order(symbol, order_id, answer),
            "Order cancelled successfully", "Failed to cancel order")

\* _handle_show_orders: prompts Symbol; an empty line asks for all orders.
handle_show_orders(lines, answer) ==
    LET typed  == Strip(lines[1])
        symbol == IF typed = <<>> THEN PyNone ELSE typed
    IN  HandlerEnd(PromptException(lines, <<"str">>),
            Op("get_open_orders", symbol, <<>>, NoFloat, NoPrice, NoPrice, NoTif,
               0, NoResp, answer),
            get_open_orders(symbol, answer),
            "Open orders", "Failed to get orders")

\* _handle_show_balance: no prompt.
handle_show_balance(answer) ==
    HandlerEnd("",
        Op("get_account_balance", <<>>, <<>>, NoFloat, NoPrice, NoPrice, NoTif,
           0, NoResp, answer),
        get_account_balance(answer),
        "Total Balance", "Failed to get balance")

\* _handle_get_price: prompts Symbol.
handle_get_price(lines, answer, priceStr) ==
    LET symbol == Strip(lines[1])
    IN  HandlerEnd(PromptException(lines, <<"str">>),
            Op("get_current_price", symbol, <<>>, NoFloat, NoPrice, NoPrice, NoTif,
               0, NoResp, answer),
            get_current_price(symbol, answer, priceStr),
            "Current price", "Failed to get price")

\* The loop with one except clause that breaks on every exception.
LoopAfterBreaking(exc) == IF exc # "" THEN "exited" ELSE "prompt"

\* The except clauses of the loop of run_interactive_mode, for the exception
\* exc that reaches it ("" for none): KeyboardInterrupt breaks the loop, any
\* Exception is printed and the loop goes on.
LoopAfter(exc) == IF exc = "KeyboardInterrupt" THEN "exited" ELSE "prompt"

(***************************************************************************)
(* Bounds and inputs                                                       *)
(***************************************************************************)
\* Quantities given to format_quantity in SpecFormat: coef * 10^(-frac).
MaxQtyCoef == 60
MaxQtyFrac == 4
\* Lot-size steps listed by the exchange: 1 or 5 units of 10^(-frac).
MaxStepFrac == 5
\* Order ids given to cancel_order.
MaxOrderId == 2

BTCUSDT == <<"B", "T", "C", "U", "S", "D", "T">>
ETHUSDT == <<"E", "T", "H", "U", "S", "D", "T">>
btcusdt == <<"b", "t", "c", "u", "s", "d", "t">>

Float(neg, coef, frac) == NormFloat([neg |-> neg, coef |-> coef, frac |-> frac])

\* futures_exchange_info() answers with BTCUSDT, whose LOT_SIZE filter has the
\* stepSize stepRaw (Missing: the key is not there), and with ETHUSDT, which
\* has no LOT_SIZE filter.
Listing(stepRaw) ==
    [raises  |-> FALSE,
     symbols |-> <<[symbol  |-> BTCUSDT,
                    filters |-> <<[filterType |-> "PRICE_FILTER", stepSize |-> Missing],
                                  [filterType |-> "LOT_SIZE", stepSize |-> stepRaw]>>],
                   [symbol  |-> ETHUSDT,
                    filters |-> <<[filterType |-> "PRICE_FILTER", stepSize |-> Missing]>>]>>]

\* futures_exchange_info() raises.
InfoRaises == [raises |-> TRUE, symbols |-> <<>>]

\* The stepSize strings of the exchange: plain decimals such as "1", "0.1",
\* "0.005", and the eight-digit form "0.00100000".
StepSizes ==
    {FixedDigits(c, f) : c \in {1, 5}, f \in 0..MaxStepFrac}
        \cup {<<"1", "0">>, <<"0", ".", "0", "0", "1", "0", "0", "0", "0", "0">>}

BadStep == <<"n", "/", "a">>

FormatResponses == {InfoRaises} \cup {Listing(st) : st \in StepSizes \cup {Missing, BadStep}}

FormatQuantities ==
    {Float(neg, c, f) : neg \in BOOLEAN, c \in 0..MaxQtyCoef, f \in 0..MaxQtyFrac}

\* The arguments of the bot operations in Spec.
OrderResponses ==
    {InfoRaises, Listing(<<"1">>), Listing(<<"0", ".", "0", "0", "1">>), Listing(BadStep)}

Symbols == {btcusdt, ETHUSDT, <<>>}

Sides == {<<"B", "u", "y">>, <<"s", "e", "l", "l">>, <<"h", "o", "l", "d">>}

OrderQuantities ==
    {Float(FALSE, 0, 0), Float(TRUE, 1, 0), Float(FALSE, 4, 4), Float(FALSE, 59, 1)}

Prices == {NoPrice, Price(Float(FALSE, 0, 0)), Price(Float(FALSE, 1005, 1))}

Tifs == {NoTif, Tif(FOK), Tif(<<"D", "A", "Y">>)}

CreateAnswers == {"ok", "apierror", "noid"}

Answers == {"ok", "apierror"}

TickerPrices == {<<"1", "0", "0", ".", "5", "0">>, <<>>}

\* What the user types at the prompts of the shell.
CommandLines ==
    {<<"m", "a", "r", "k", "e", "t">>, <<" ", "L", "i", "m", "i", "t", " ">>,
     <<"s", "t", "o", "p">>, <<"c", "a", "n", "c", "e", "l">>,
     <<"o", "r", "d", "e", "r", "s">>, <<"b", "a", "l", "a", "n", "c", "e">>,
     <<"p", "r", "i", "c", "e">>, <<"Q", "U", "I", "T">>, <<"q", "u", "i", "t">>,
     <<"h", "e", "l", "p">>, <<>>, EOF, INTR}

SymbolLines == {<<"b", "t", "c", "u", "s", "d", "t", " ">>, <<>>, INTR}

SideLines == {<<" ", "b", "u", "y">>, <<"h", "o", "l", "d">>, EOF}

QuantityLines == {<<"0">>, <<"5", ".", "9">>, <<"a", "b", "c">>, INTR}

PriceLines == {<<"1", "0", "0", ".", "5">>, <<"0">>, <<>>}

OrderIdLines == {<<"1">>, <<" ", "2">>, <<"1", ".", "5">>, INTR}

(***************************************************************************)
(* The state machine                                                       *)
(***************************************************************************)
VARIABLES
    pc,        \* "idle": the bot and the shell are constructed; "returned": a
               \* direct call of a bot operation has returned to its caller;
               \* "prompt": the shell waits at "Enter command"; "dispatch":
               \* the shell has read the keyword of a handler; "exited"
    cmd,       \* the keyword read at the main prompt, stripped and lower-cased
    op,        \* the bot operation of this call or command, NoOp for none
    out,       \* its outcome: client calls made, exception raised, value
    shellExc,  \* the exception raised in the shell outside the bot operation
    printed    \* the last thing the shell printed

vars == <<pc, cmd, op, out, shellExc, printed>>

NoOut == Returned(<<>>, <<>>)

Init ==
    /\ pc = "idle"
    /\ cmd = <<>>
    /\ op = NoOp
    /\ out = NoOut
    /\ shellExc = ""
    /\ printed = ""

\* A direct call (the bot used as a library) of the operation o runs to its
\* outcome r: its return or its exception.
Direct(o, r) ==
    /\ pc' = "returned"
    /\ op' = o
    /\ out' = r
    /\ UNCHANGED <<cmd, shellExc, printed>>

FormatQuantity(o, r) ==
    /\ pc = "idle"
    /\ Direct(o, [calls |-> <<ExchangeInfoCall>>, raised |-> r.raised,
                  exc |-> r.exc, ret |-> r.ret])

PlaceMarketOrder(o, r) == pc = "idle" /\ Direct(o, r)

PlaceLimitOrder(o, r) == pc = "idle" /\ Direct(o, r)

PlaceStopLimitOrder(o, r) == pc = "idle" /\ Direct(o, r)

CancelOrder(o, r) == pc = "idle" /\ Direct(o, r)

GetOpenOrders(o, r) == pc = "idle" /\ Direct(o, r)

GetCurrentPrice(o, r) == pc = "idle" /\ Direct(o, r)

GetAccountBalance(o, r) == pc = "idle" /\ Direct(o, r)

CallFormatQuantity ==
    \E symbol \in Symbols, quantity \in OrderQuantities, resp \in OrderResponses :
        FormatQuantity(Op("format_quantity", symbol, <<>>, quantity, NoPrice,
                          NoPrice, NoTif, 0, resp, ""),
                       format_quantity(symbol, quantity, resp))

CallPlaceMarketOrder ==
    \E symbol \in Symbols, side \in Sides, quantity \in OrderQuantities,
       resp \in OrderResponses, created \in CreateAnswers :
        PlaceMarketOrder(Op("place_market_order", symbol, side, quantity, NoPrice,
                            NoPrice, NoTif, 0, resp, created),
                         place_market_order(symbol, side, quantity, resp, created))

CallPlaceLimitOrder ==
    \E symbol \in Symbols, side \in Sides, quantity \in OrderQuantities,
       price \in Prices, tif \in Tifs, resp \in OrderResponses,
       created \in CreateAnswers :
        PlaceLimitOrder(Op("place_limit_order", symbol, side, quantity, price,
                           NoPrice, tif, 0, resp, created),
                        place_limit_order(symbol, side, quantity, price, tif, resp,
                                          created))

CallPlaceStopLimitOrder ==
    \E symbol \in Symbols, side \in Sides, quantity \in OrderQuantities,
       price \in Prices, stop_price \in Prices, tif \in Tifs,
       resp \in OrderResponses, created \in CreateAnswers :
        PlaceStopLimitOrder(Op("place_stop_limit_order", symbol, side, quantity,
                               price, stop_price, tif, 0, resp, created),
                            place_stop_limit_order(symbol, side, quantity, price,
                                                   stop_price, tif, resp, created))

CallCancelOrder ==
    \E symbol \in Symbols, order_id \in 1..MaxOrderId, answer \in Answers :
        CancelOrder(Op("cancel_order", symbol, <<>>, NoFloat, NoPrice, NoPrice,
                       NoTif, order_id, NoResp, answer),
                    cancel_order(symbol, order_id, answer))

CallGetOpenOrders ==
    \E symbol \in Symbols \cup {PyNone}, answer \in Answers :
        GetOpenOrders(Op("get_open_orders", symbol, <<>>, NoFloat, NoPrice, NoPrice,
                         NoTif, 0, NoResp, answer),
                      get_open_orders(symbol, answer))

CallGetCurrentPrice ==
    \E symbol \in Symbols, answer \in Answers, priceStr \in TickerPrices :
        GetCurrentPrice(Op("get_current_price", symbol, <<>>, NoFloat, NoPrice,
                           NoPrice, NoTif, 0, NoResp, answer),
                        get_current_price(symbol, answer, priceStr))

CallGetAccountBalance ==
    \E answer \in Answers :
        GetAccountBalance(Op("get_account_balance", <<>>, <<>>, NoFloat, NoPrice,
                             NoPrice, NoTif, 0, NoResp, answer),
                          get_account_balance(answer))

\* The caller of a direct call is done with its result.
ReturnToCaller ==
    /\ pc = "returned"
    /\ pc' = "idle"
    /\ op' = NoOp
    /\ out' = NoOut
    /\ UNCHANGED <<cmd, shellExc, printed>>

\* main() enters run_interactive_mode, which prints the menu.
RunInteractiveMode ==
    /\ pc = "idle"
    /\ pc' = "prompt"
    /\ printed' = "Available commands"
    /\ UNCHANGED <<cmd, op, out, shellExc>>

Market  == <<"m", "a", "r", "k", "e", "t">>
Limit   == <<"l", "i", "m", "i", "t">>
Stop    == <<"s", "t", "o", "p">>
Cancel  == <<"c", "a", "n", "c", "e", "l">>
Orders  == <<"o", "r", "d", "e", "r", "s">>
Balance == <<"b", "a", "l", "a", "n", "c", "e">>
PriceKw == <<"p", "r", "i", "c", "e">>
Quit    == <<"q", "u", "i", "t">>

Keywords == {Market, Limit, Stop, Cancel, Orders, Balance, PriceKw}

\* What the loop prints for the exception exc that reaches it.
LoopPrinted(exc, otherwise) ==
    IF exc = "KeyboardInterrupt" THEN "Goodbye!"
    ELSE IF exc # "" THEN "Error"
    ELSE otherwise

\* One reading of the main prompt, lines 26 to 52 up to the dispatch: the
\* state of the command before is gone.
ReadCommand ==
    /\ pc = "prompt"
    /\ \E line \in CommandLines :
        LET exc     == IF line = INTR THEN "KeyboardInterrupt"
                       ELSE IF line = EOF THEN "EOFError" ELSE ""
            command == Lower(Strip(line))
        IN  /\ shellExc' = exc
            /\ cmd' = IF exc = "" THEN command ELSE <<>>
            /\ pc' = IF exc # "" THEN LoopAfter(exc)
                     ELSE IF command = Quit THEN "exited"
                     ELSE IF command \in Keywords THEN "dispatch"
                     ELSE "prompt"
            /\ printed' = LoopPrinted(exc,
                              IF command = Quit THEN "Goodbye!"
                              ELSE IF command \in Keywords THEN printed
                              ELSE "Unknown command. Try again.")
    /\ op' = NoOp
    /\ out' = NoOut

\* The handler of the keyword read has run to its end h, and the loop goes on
\* or, on a keyboard interrupt, ends.
Dispatched(h) ==
    /\ op' = h.op
    /\ out' = h.out
    /\ shellExc' = h.shellExc
    /\ printed' = LoopPrinted(h.escaped, h.printed)
    /\ pc' = LoopAfter(h.escaped)
    /\ UNCHANGED cmd

MarketOrderCommand(h) == pc = "dispatch" /\ cmd = Market /\ Dispatched(h)

LimitOrderCommand(h) == pc = "dispatch" /\ cmd = Limit /\ Dispatched(h)

StopOrderCommand(h) == pc = "dispatch" /\ cmd = Stop /\ Dispatched(h)

CancelOrderCommand(h) == pc = "dispatch" /\ cmd = Cancel /\ Dispatched(h)

ShowOrdersCommand(h) == pc = "dispatch" /\ cmd = Orders /\ Dispatched(h)

ShowBalanceCommand(h) == pc = "dispatch" /\ cmd = Balance /\ Dispatched(h)

GetPriceCommand(h) == pc = "dispatch" /\ cmd = PriceKw /\ Dispatched(h)

HandleMarketOrder ==
    \E l1 \in SymbolLines, l2 \in SideLines, l3 \in QuantityLines,
       resp \in OrderResponses, created \in CreateAnswers :
        MarketOrderCommand(handle_market_order(<<l1, l2, l3>>, resp, created))

HandleLimitOrder ==
    \E l1 \in SymbolLines, l2 \in SideLines, l3 \in QuantityLines,
       l4 \in PriceLines, resp \in OrderResponses, created \in CreateAnswers :
        LimitOrderCommand(handle_limit_order(<<l1, l2, l3, l4>>, resp, created))

HandleStopOrder ==
    \E l1 \in SymbolLines, l2 \in SideLines, l3 \in QuantityLines,
       l4 \in PriceLines, l5 \in PriceLines, resp \in OrderResponses,
       created \in CreateAnswers :
        StopOrderCommand(handle_stop_order(<<l1, l2, l3, l4, l5>>, resp, created))

HandleCancelOrder ==
    \E l1 \in SymbolLines, l2 \in OrderIdLines, answer \in Answers :
        CancelOrderCommand(handle_cancel_order(<<l1, l2>>, answer))

HandleShowOrders ==
    \E l1 \in SymbolLines, answer \in Answers :
        ShowOrdersCommand(handle_show_orders(<<l1>>, answer))

HandleShowBalance ==
    \E answer \in Answers :
        ShowBalanceCommand(handle_show_balance(answer))

HandleGetPrice ==
    \E l1 \in SymbolLines, answer \in Answers, priceStr \in TickerPrices :
        GetPriceCommand(handle_get_price(<<l1>>, answer, priceStr))

Next ==
    \/ CallFormatQuantity
    \/ CallPlaceMarketOrder
    \/ CallPlaceLimitOrder
    \/ CallPlaceStopLimitOrder
    \/ CallCancelOrder
    \/ CallGetOpenOrders
    \/ CallGetCurrentPrice
    \/ CallGetAccountBalance
    \/ ReturnToCaller
    \/ RunInteractiveMode
    \/ ReadCommand
    \/ HandleMarketOrder
    \/ HandleLimitOrder
    \/ HandleStopOrder
    \/ HandleCancelOrder
    \/ HandleShowOrders
    \/ HandleShowBalance
    \/ HandleGetPrice

Spec == Init /\ [][Next]_vars

\* format_quantity alone, over every quantity and step of the bounds.
FormatQuantityWide(o, r) ==
    /\ pc = "idle"
    /\ Direct(o, [calls |-> <<ExchangeInfoCall>>, raised |-> r.raised,
                  exc |-> r.exc, ret |-> r.ret])

CallFormatQuantityWide ==
    \E symbol \in {btcusdt, ETHUSDT}, quantity \in FormatQuantities,
       resp \in FormatResponses :
        FormatQuantityWide(Op("format_quantity", symbol, <<>>, quantity, NoPrice,
                              NoPrice, NoTif, 0, resp, ""),
                           format_quantity(symbol, quantity, resp))

NextFormat == CallFormatQuantityWide \/ ReturnToCaller

SpecFormat == Init /\ [][NextFormat]_vars

(***************************************************************************)
(* Properties                                                              *)
(***************************************************************************)
OrderOps == {"place_market_order", "place_limit_order", "place_stop_limit_order"}

\* The futures_create_order calls of the operation, by their place in out.calls.
CreateCalls == {i \in DOMAIN out.calls : out.calls[i].api = "futures_create_order"}

TimesInForce == {GTC, IOC, FOK}

\* The stepSize string of the LOT_SIZE filter the exchange lists for the symbol
\* of operation o; Missing when the lookup gives none.
ListedStep(o) ==
    LET hits == {i \in DOMAIN o.resp.symbols :
                    o.resp.symbols[i].symbol = Upper(o.symbol)}
        info == o.resp.symbols[CHOOSE i \in hits : \A j \in hits : i <= j]
        lots == {i \in DOMAIN info.filters : info.filters[i].filterType = "LOT_SIZE"}
    IN  IF o.resp.raises \/ hits = {} \/ lots = {} THEN Missing
        ELSE info.filters[CHOOSE i \in lots : \A j \in lots : i <= j].stepSize

\* The symbol of o has a LOT_SIZE filter whose step is a number above zero.
HasStep(o) ==
    /\ ListedStep(o) # Missing
    /\ ParseNumber(ListedStep(o)).ok
    /\ ParseNumber(ListedStep(o)).coef > 0
    /\ ~ParseNumber(ListedStep(o)).neg

\* The metadata lookup, the symbol search or the conversion of the step fails.
LookupFails(o) ==
    \/ o.resp.raises
    \/ \A i \in DOMAIN o.resp.symbols : o.resp.symbols[i].symbol # Upper(o.symbol)
    \/ \E i \in DOMAIN o.resp.symbols :
          /\ o.resp.symbols[i].symbol = Upper(o.symbol)
          /\ \E k \in DOMAIN o.resp.symbols[i].filters :
                /\ o.resp.symbols[i].filters[k].filterType = "LOT_SIZE"
                /\ \/ o.resp.symbols[i].filters[k].stepSize = Missing
                   \/ ~ParseNumber(o.resp.symbols[i].filters[k].stepSize).ok

\* The float x as an integer number of units of 10^(-f), for f >= x.frac.
Units(x, f) == (IF x.neg THEN 0 - x.coef ELSE x.coef) * Pow10(f - x.frac)

MaxOf(a, b) == IF a >= b THEN a ELSE b

\* The number a decimal string denotes is above zero.
Positive(str) ==
    /\ ParseNumber(str).ok
    /\ ~ParseNumber(str).neg
    /\ ParseNumber(str).coef > 0

\* C1: each order operation rejects a side that is neither BUY nor SELL after
\* upper-casing with a ValueError before any call on the exchange client, and
\* submits the upper-case form of a side that is one.
C1_SideValidated ==
    op.name \in OrderOps =>
        IF Upper(op.side) \notin {BUY, SELL}
        THEN out.raised /\ out.exc = "ValueError" /\ out.calls = <<>>
        ELSE \A i \in CreateCalls : out.calls[i].side = Upper(op.side)

\* C2: for a step S > 0 and a quantity Q >= 0, format_quantity returns a
\* multiple of S that is at most Q and less than S below Q.
C2_TruncatesToStep ==
    (op.name = "format_quantity" /\ HasStep(op) /\ ~op.quantity.neg) =>
        /\ ParseNumber(out.ret).ok
        /\ LET r == FloatOfNumber(ParseNumber(out.ret))
               S == FloatOfNumber(ParseNumber(ListedStep(op)))
               Q == NormFloat(op.quantity)
               f == MaxOf(MaxOf(r.frac, S.frac), Q.frac)
           IN  /\ Units(r, f) % Units(S, f) = 0
               /\ Units(r, f) <= Units(Q, f)
               /\ Units(Q, f) - Units(r, f) < Units(S, f)

\* C3: no futures_create_order call carries a quantity that is zero or negative.
C3_QuantityPositive ==
    \A i \in CreateCalls : Positive(out.calls[i].quantity)

\* C4: every LIMIT request of place_limit_order has a time-in-force of GTC,
\* IOC or FOK, GTC when the caller omits it; any other time_in_force fails
\* without a futures_create_order call.
C4_TimeInForceValidated ==
    op.name = "place_limit_order" =>
        /\ \A i \in CreateCalls :
              /\ out.calls[i].timeInForce \in TimesInForce
              /\ ~op.tif.given => out.calls[i].timeInForce = GTC
        /\ (op.tif.given /\ op.tif.val \notin TimesInForce) =>
              (out.raised /\ CreateCalls = {})

\* C5: every request of place_stop_limit_order has type STOP and a limit price
\* and a stop price above zero; a call with either price absent or not above
\* zero fails without a futures_create_order call.
C5_StopPricesValidated ==
    op.name = "place_stop_limit_order" =>
        /\ \A i \in CreateCalls :
              /\ out.calls[i].type = "STOP"
              /\ Positive(out.calls[i].price)
              /\ Positive(out.calls[i].stopPrice)
        /\ (~Positive(PyStr(op.price)) \/ ~Positive(PyStr(op.stop_price))) =>
              (out.raised /\ CreateCalls = {})

\* The operation o gets as far as its format_quantity call.
ReachesFormat(o) ==
    o.name = "place_stop_limit_order" \/ Upper(o.side) \in {BUY, SELL}

\* C6: when the metadata lookup, the symbol search or the step conversion
\* fails, format_quantity raises nothing and returns str(quantity), and an
\* order operation that called it goes on to futures_create_order with
\* that unrounded quantity.
C6_FormatFallback ==
    /\ (op.name = "format_quantity" /\ LookupFails(op)) =>
          (~out.raised /\ out.ret = FloatStr(op.quantity))
    /\ (op.name \in OrderOps /\ LookupFails(op) /\ ReachesFormat(op)) =>
          \E i \in CreateCalls : out.calls[i].quantity = FloatStr(op.quantity)

\* A limit order whose step cannot be read is submitted with str(5.9).
C6_Witness ==
    /\ pc = "returned"
    /\ op.name = "place_limit_order"
    /\ op.resp = Listing(BadStep)
    /\ op.quantity = Float(FALSE, 59, 1)
    /\ \E i \in CreateCalls : out.calls[i].quantity = <<"5", ".", "9">>

\* C7: after the keyword of a handler the loop is back at the main prompt
\* whatever the handler's outcome, and the loop ends only on quit or on a
\* keyboard interrupt.
C7_LoopReturnsToPrompt ==
    [][/\ pc = "dispatch" =>
             \/ pc' = "prompt"
             \/ pc' = "exited" /\ shellExc' = "KeyboardInterrupt"
       /\ (pc \in {"prompt", "dispatch"} /\ pc' = "exited") =>
             \/ cmd' = Quit /\ shellExc' = ""
             \/ shellExc' = "KeyboardInterrupt"]_vars

\* The shell is back at the main prompt after a market command whose quantity
\* was no number.
C7_Witness ==
    /\ pc = "prompt"
    /\ cmd = Market
    /\ shellExc = "ValueError"
    /\ printed = "Failed to place market order"

\* C8: one invocation of an order operation makes at most one
\* futures_create_order call, and none after one that failed.
C8_AtMostOnce ==
    /\ Cardinality(CreateCalls) <= 1
    /\ \A i \in CreateCalls : i = Len(out.calls)

\* A stop command of the shell whose futures_create_order call failed.
C8_Witness ==
    /\ pc = "prompt"
    /\ cmd = Stop
    /\ op.name = "place_stop_limit_order"
    /\ out.raised /\ out.exc = "BinanceAPIException"
    /\ Cardinality(CreateCalls) = 1

\* C9: for a step S and a quantity Q >= 0, formatting the number that
\* format_quantity returned again gives the same string.
C9_Idempotent ==
    (op.name = "format_quantity" /\ HasStep(op) /\ ~op.quantity.neg) =>
        /\ ParseNumber(out.ret).ok
        /\ format_quantity(op.symbol, FloatOfNumber(ParseNumber(out.ret)),
                           op.resp).ret = out.ret

\* C10: every symbol a bot operation passes to the exchange client is
\* non-empty and upper-case, and an order operation given an empty symbol
\* fails before any call on the exchange client.
C10_SymbolNormalized ==
    /\ \A i \in DOMAIN out.calls :
          out.calls[i].symbol \notin {Absent, PyNone} =>
              /\ out.calls[i].symbol # <<>>
              /\ out.calls[i].symbol = Upper(out.calls[i].symbol)
    /\ (op.name \in OrderOps /\ op.symbol = <<>>) =>
          (out.raised /\ out.calls = <<>>)

====
